---- MODULE Spec2Model ----
(***************************************************************************)
(* github_pulls.py: the paginated, rate-limit aware download of a          *)
(* repository's pull requests, the classification of each pull by the      *)
(* labels of its issue, the extraction of the commits of the defect pulls  *)
(* and the three output files.  The GitHub server is the environment: it   *)
(* chooses every response.  Spec is the run of analyze_pulls; SpecAuth,    *)
(* SpecWait and SpecMarks follow get_auth, the rate-limit wait and the     *)
(* progress marks on their own, over inputs a run of Spec does not reach.  *)
(***************************************************************************)
EXTENDS Integers, Sequences, FiniteSets, TLC

(***************************************************************************)
(* Bounds of the model.                                                    *)
(***************************************************************************)
\* page requests download_pulls may issue before the model stops it
MaxPageReqs == 2
\* pull records the server hands out over all pages
MaxPulls == 3
\* pulls the for loop goes through where only its progress marks are followed
MaxMarked == 150

(***************************************************************************)
(* Module globals.                                                         *)
(***************************************************************************)
VERBOSE == TRUE
\* the wider set the source keeps commented out: enhancement counts as a defect
DEFECTS_with_enhancement == {"bug", "defect", "kind/bug", "enhancement"}
DEFECTS == {"bug", "defect", "kind/bug"}
\* the names the import statements bind at module level
ImportedNames ==
    {"sys", "os", "requests", "argparse", "configparser", "re", "json", "csv",
     "Enum", "unique"}
wait_incr == 240

OWNER == "o"
REPO == "r"

(***************************************************************************)
(* URLs.  A URL is the kind of resource and its identifier: the page of    *)
(* the pull list, or the number of the pull an issue / commit list is of.  *)
(***************************************************************************)
PageIds == 1..2
PullNums == 1..2
NoUrl == [kind |-> "none", id |-> 0]
PullsUrl(u) == [kind |-> "pulls", id |-> u]
IssueUrl(n) == [kind |-> "issue", id |-> n]
CommitsUrl(n) == [kind |-> "commits", id |-> n]

\* a pull request record of the pull list
PullRecord(n) ==
    [number |-> n, issue_url |-> IssueUrl(n), commits_url |-> CommitsUrl(n)]

(***************************************************************************)
(* What the server may answer.  A response is its status code, its         *)
(* x-ratelimit-remaining header, its link header and its JSON body.        *)
(***************************************************************************)
Statuses == {200, 404}
Remainings == {"0", "1"}
\* the clock utcnow() reads when the run starts, and the values of the
\* x-ratelimit-reset header, in seconds
StartTimes == {100}
ResetTimes == {40, 105, 400}

SeqsUpTo(S, n) == UNION {[1..k -> S] : k \in 0..n}

\* one entry <url>; rel="relation" of a link header
LinkEntries ==
    {[rel |-> "next", url |-> u] : u \in PageIds}
        \cup {[rel |-> "last", url |-> 2], [rel |-> "prev", url |-> 1]}
NoLink == [has_link |-> FALSE, entries |-> <<>>]
\* the link header: absent, or one or two entries
LinkHeaders ==
    {NoLink} \cup {[has_link |-> TRUE, entries |-> l] : l \in SeqsUpTo(LinkEntries, 2) \ {<<>>}}

\* the responses with a body of Bodies and a link header of Links.  The code
\* reads the body and the link header only of a response it returns, and the
\* reset header only of a response with no requests remaining: where it
\* does not read them they carry the empty value
Responses(Bodies, Links, empty) ==
    {r \in [status : Statuses, remaining : Remainings, reset : ResetTimes \cup {0},
            link : Links, json : Bodies] :
        /\ (r.remaining = "0") = (r.reset \in ResetTimes)
        /\ \/ r.status = 200 /\ r.remaining # "0"
           \/ r.json = empty /\ r.link = NoLink}

PageBodies(room) == {[i \in 1..Len(s) |-> PullRecord(s[i])] : s \in SeqsUpTo(PullNums, room)}
PageResponses(room) == Responses(PageBodies(room), LinkHeaders, <<>>)

LabelLists ==
    {<<>>, <<"bug">>, <<"defect">>, <<"kind/bug">>, <<"enhancement">>, <<"Bug">>,
     <<"enhancement", "bug">>}
NoLabels == [has_labels |-> FALSE, labels |-> <<>>]
IssueBodies ==
    {NoLabels}
        \cup {[has_labels |-> TRUE, labels |-> [i \in 1..Len(l) |-> [name |-> l[i]]]] :
                l \in LabelLists}
IssueResponses == Responses(IssueBodies, {NoLink}, NoLabels)

CommitLists == {<<>>, <<"c1", "c2">>, <<"c2">>}
CommitBodies == {[i \in 1..Len(c) |-> [sha |-> c[i]]] : c \in CommitLists}
\* the link header of the first page of a commit list that goes on: the
\* server sends next and last only when it holds more commits than the page
MoreLink ==
    [has_link |-> TRUE,
     entries |-> <<[rel |-> "next", url |-> 2], [rel |-> "last", url |-> 2]>>]
CommitLinks == {NoLink, MoreLink}
\* a page that goes on is not empty
CommitResponses ==
    {r \in Responses(CommitBodies, CommitLinks, <<>>) : r.link = MoreLink => r.json # <<>>}
\* the commits the server keeps on the pages after the one with this link header
LaterCommits(link) == IF link = MoreLink THEN <<[sha |-> "c3"]>> ELSE <<>>

(***************************************************************************)
(* Exceptions.                                                             *)
(***************************************************************************)
NoErr == [type |-> "none", arg |-> "", code |-> 0]
NameError(name) == [type |-> "NameError", arg |-> name, code |-> 0]
StatusError(status) == [type |-> "Exception", arg |-> "", code |-> status]
KeyError(name) == [type |-> "KeyError", arg |-> name, code |-> 0]
\* str.format with the code f applied to a string
ValueError ==
    [type |-> "ValueError", arg |-> "Unknown format code 'f' for object of type 'str'",
     code |-> 0]

VARIABLES
    pc,            \* where analyze_pulls stands
    url,           \* download_pulls: the URL of the next page, NoUrl for None
    pull_reqs,     \* download_pulls: the accumulator
    pulls,         \* analyze_pulls: the list download_pulls returned
    idx,           \* analyze_pulls: position of the for loop in pulls
    progress,      \* analyze_pulls: the progress counter
    stdout,        \* the progress marks written: asterisks and line breaks
    shas,          \* analyze_pulls: the flat list
    pull_commits,  \* analyze_pulls: the dictionary, as its items in insertion order
    files,         \* the three output files
    response,      \* get_page: the last response received, with the URL asked
    err,           \* the exception that ended the run, NoErr if none
    clock,         \* the time utcnow() reads, in seconds
    slept,         \* the durations passed to sleep(), in call order
    depth,         \* get_page: how many retries deep the current call is
    requests,      \* history: the URL of every request issued, in order
    hits,          \* history: how many responses had no requests remaining
    sent,          \* history: the records of the pages get_page returned, in order
    npages,        \* history: how many pages get_page returned to download_pulls
    verdicts,      \* history: what is_defect returned, per pull in loop order
    produced,      \* history: of every pull extracted, its number, the commits
                   \* get_commits_by_pull returned and all those the server holds
    input,         \* a direct call of one function: its arguments
    called,        \* a direct call of one function: the function, "" before the call
    outcome        \* a direct call of one function: what it ended with

vars ==
    <<pc, url, pull_reqs, pulls, idx, progress, stdout, shas, pull_commits, files,
      response, err, clock, slept, depth, requests, hits, sent, npages, verdicts, produced,
      input, called, outcome>>

\* the variables of a direct call, which a run of analyze_pulls leaves alone
direct == <<input, called, outcome>>
\* the variables of a run of analyze_pulls, which a direct call leaves alone
run ==
    <<pc, url, pull_reqs, pulls, idx, progress, stdout, shas, pull_commits, files,
      response, err, clock, slept, depth, requests, hits, sent, npages, verdicts, produced>>

Range(s) == {s[i] : i \in 1..Len(s)}

RECURSIVE Sum(_)
\* the sum of a sequence of numbers, by halves
Sum(s) ==
    IF Len(s) = 0 THEN 0
    ELSE IF Len(s) = 1 THEN s[1]
    ELSE LET h == Len(s) \div 2
         IN  Sum(SubSeq(s, 1, h)) + Sum(SubSeq(s, h + 1, Len(s)))

RECURSIVE Concat(_)
\* the concatenation of a sequence of sequences
Concat(ss) == IF ss = <<>> THEN <<>> ELSE Head(ss) \o Concat(Tail(ss))

(***************************************************************************)
(* wait_it_out(msg, total_wait), msg a string: the durations it passes to  *)
(* sleep(), the notices it writes, and the exception it ends with.  Its    *)
(* notices go through gh_shared and its pauses through sleep, names the    *)
(* module has to have bound.  A turn of its loop that finds total_wait at  *)
(* 60 or less formats msg, not the minutes, with {1:0.2f}: ValueError,     *)
(* before the notice is written and before the sleep.                      *)
(***************************************************************************)
\* the turns of the while loop if none raised: turn i finds total_wait less
\* (i - 1) increments, and the loop goes on while that is >= 0
WaitTurns(total_wait) == IF total_wait >= 0 THEN (total_wait \div wait_incr) + 1 ELSE 0
WaitLeft(total_wait, i) == total_wait - (i - 1) * wait_incr
\* the turns that get through: those that find total_wait above 60, which
\* come first
FormattedTurns(total_wait) ==
    Cardinality({i \in 1..WaitTurns(total_wait) : WaitLeft(total_wait, i) > 60})

\* the sleeps made: a turn that gets through sleeps the increment or what is left
WaitLoop(total_wait) ==
    [i \in 1..FormattedTurns(total_wait) |->
        IF WaitLeft(total_wait, i) > wait_incr THEN wait_incr ELSE WaitLeft(total_wait, i)]

\* the notices written to stdout: one per turn that gets through, and one at
\* the end if every turn did
WaitNotices(total_wait) ==
    [i \in 1..FormattedTurns(total_wait) |-> "minutes remaining"]
        \o (IF FormattedTurns(total_wait) = WaitTurns(total_wait)
            THEN <<"Wait completed">>
            ELSE <<>>)

wait_it_out(total_wait) ==
    LET padded == total_wait + 15
    IN  IF "gh_shared" \notin ImportedNames
        THEN [sleeps |-> <<>>, notices |-> <<>>, err |-> NameError("gh_shared")]
        ELSE IF "sleep" \notin ImportedNames /\ padded > 60
        THEN [sleeps |-> <<>>, notices |-> <<"minutes remaining">>,
              err |-> NameError("sleep")]
        ELSE [sleeps |-> WaitLoop(padded), notices |-> WaitNotices(padded),
              err |-> IF FormattedTurns(padded) = WaitTurns(padded)
                      THEN NoErr
                      ELSE ValueError]

\* timedelta.seconds of a difference of d whole seconds
TimedeltaSeconds(d) == d % 86400

\* get_page comparing the status code with the string "200": never equal
get_page_str_status(resp, now) ==
    IF resp.remaining = "0"
    THEN [kind |-> "raise", err |-> NameError("datetime"), sleeps |-> <<>>, waits |-> <<>>]
    ELSE [kind |-> "raise", err |-> StatusError(resp.status), sleeps |-> <<>>, waits |-> <<>>]

\* get_page with its tests in the other order: the status code first
get_page_status_first(resp, now) ==
    IF resp.status = 200
    THEN [kind |-> "return", err |-> NoErr, sleeps |-> <<>>, waits |-> <<>>]
    ELSE IF resp.remaining = "0"
    THEN [kind |-> "raise", err |-> NameError("datetime"), sleeps |-> <<>>, waits |-> <<>>]
    ELSE [kind |-> "raise", err |-> StatusError(resp.status), sleeps |-> <<>>, waits |-> <<>>]

\* get_page without the check of the status code
get_page_unchecked(resp, now) ==
    IF resp.remaining = "0"
    THEN [kind |-> "raise", err |-> NameError("datetime"), sleeps |-> <<>>, waits |-> <<>>]
    ELSE [kind |-> "return", err |-> NoErr, sleeps |-> <<>>, waits |-> <<>>]

(***************************************************************************)
(* get_page, on the response to its request: return it, wait and request   *)
(* again, or raise; with the durations it slept and those it passed to     *)
(* wait_it_out.                                                            *)
(***************************************************************************)
get_page(resp, now) ==
    IF resp.remaining = "0"
    THEN IF "datetime" \notin ImportedNames
         THEN [kind |-> "raise", err |-> NameError("datetime"), sleeps |-> <<>>,
               waits |-> <<>>]
         ELSE LET wait_time == TimedeltaSeconds(resp.reset - now)
                  w == wait_it_out(wait_time)
              IN  IF w.err # NoErr
                  THEN [kind |-> "raise", err |-> w.err, sleeps |-> w.sleeps,
                        waits |-> <<wait_time>>]
                  ELSE [kind |-> "retry", err |-> NoErr, sleeps |-> w.sleeps,
                        waits |-> <<wait_time>>]
    ELSE IF resp.status = 200
    THEN [kind |-> "return", err |-> NoErr, sleeps |-> <<>>, waits |-> <<>>]
    ELSE [kind |-> "raise", err |-> StatusError(resp.status), sleeps |-> <<>>, waits |-> <<>>]

(***************************************************************************)
(* download_pulls: the pieces of one turn of its loop.                     *)
(***************************************************************************)
\* the dict of relation -> url built from the entries of a link header
ParseLink(entries) ==
    [r \in {entries[i].rel : i \in 1..Len(entries)} |->
        LET last_i == CHOOSE i \in 1..Len(entries) :
                        /\ entries[i].rel = r
                        /\ \A j \in 1..Len(entries) : entries[j].rel = r => j <= i
        IN  entries[last_i].url]

\* url = pages["last"]: the cursor jumps to the last page
NextUrlLast(link) ==
    IF link.has_link
    THEN LET pages == ParseLink(link.entries)
         IN  IF "last" \in DOMAIN pages /\ "next" \in DOMAIN pages
             THEN PullsUrl(pages["last"])
             ELSE NoUrl
    ELSE NoUrl

\* if "next" in pages: the cursor moves on without a look at last
NextUrlNextOnly(link) ==
    IF link.has_link
    THEN LET pages == ParseLink(link.entries)
         IN  IF "next" \in DOMAIN pages THEN PullsUrl(pages["next"]) ELSE NoUrl
    ELSE NoUrl

\* the URL of the page to fetch next, NoUrl to stop
NextUrl(link) ==
    IF link.has_link
    THEN LET pages == ParseLink(link.entries)
         IN  IF "last" \in DOMAIN pages /\ "next" \in DOMAIN pages
             THEN PullsUrl(pages["next"])
             ELSE NoUrl
    ELSE NoUrl

\* pull_reqs = pull_list: the page replaces the accumulator
ExtendReplace(acc, pull_list) == pull_list

\* pull_reqs.extend(pull_list)
Extend(acc, pull_list) == acc \o pull_list

(***************************************************************************)
(* is_defect, on the body of the issue.                                    *)
(***************************************************************************)
is_defect(body) ==
    LET labels == IF body.has_labels THEN body.labels ELSE <<>>
        label_names == [i \in 1..Len(labels) |-> labels[i].name]
        isect == DEFECTS \cap Range(label_names)
    IN  isect # {}

\* get_commits_by_url, on the body of the commits response
CommitShas(commits) == [i \in 1..Len(commits) |-> commits[i].sha]

(***************************************************************************)
(* The dictionary pull_commits: its items, in insertion order.             *)
(***************************************************************************)
DictKeys(d) == {d[i].key : i \in 1..Len(d)}
DictIndex(d, k) == CHOOSE i \in 1..Len(d) : d[i].key = k
DictGet(d, k) == d[DictIndex(d, k)].val
\* d.setdefault(k, v): the first value of a key stays
DictSetDefault(d, k, v) ==
    IF k \in DictKeys(d) THEN d ELSE Append(d, [key |-> k, val |-> v])

\* if v: d[k] = v: a pull without commits gets no key
DictSetSkipEmpty(d, k, v) ==
    IF v = <<>>
    THEN d
    ELSE IF k \in DictKeys(d)
    THEN [d EXCEPT ![DictIndex(d, k)] = [key |-> k, val |-> v]]
    ELSE Append(d, [key |-> k, val |-> v])

\* d[k] = v
DictSet(d, k, v) ==
    IF k \in DictKeys(d)
    THEN [d EXCEPT ![DictIndex(d, k)] = [key |-> k, val |-> v]]
    ELSE Append(d, [key |-> k, val |-> v])

\* shas.extend(c for c in commits if c not in shas): a commit enters once
ExtendShasOnce(acc, commits) ==
    acc \o SelectSeq(commits, LAMBDA c : c \notin Range(acc))

\* shas = commits: the commits of the pull replace the flat list
ExtendShasReplace(acc, commits) == commits

\* shas.extend(commits)
ExtendShas(acc, commits) == acc \o commits

(***************************************************************************)
(* The output files.                                                       *)
(***************************************************************************)
NotWritten == [written |-> FALSE, content |-> <<>>]
TxtFile(flat) == [written |-> TRUE, content |-> flat]
CsvRowsOf(item) ==
    [i \in 1..Len(item.val) |-> <<ToString(item.key), item.val[i], OWNER, REPO>>]
CsvFile(d) ==
    [written |-> TRUE,
     content |-> <<<<"Pull", "Commit-SHA", "Owner", "Repo">>>>
                    \o Concat([i \in 1..Len(d) |-> CsvRowsOf(d[i])])]
JsonFile(d) ==
    [written |-> TRUE,
     content |-> [owner |-> OWNER, repo |-> REPO,
                  pull_requests |->
                      [i \in 1..Len(d) |-> [key |-> ToString(d[i].key), val |-> d[i].val]]]]

(***************************************************************************)
(* The run of analyze_pulls.                                               *)
(***************************************************************************)
\* nothing fetched, classified, extracted or written yet; analyze_pulls stands at
\* at, and utcnow() reads one of times
Start(at, times) ==
    /\ pc = at
    /\ url = PullsUrl(1)
    /\ pull_reqs = <<>>
    /\ pulls = <<>>
    /\ idx = 1
    /\ progress = 0
    /\ stdout = <<>>
    /\ shas = <<>>
    /\ pull_commits = <<>>
    /\ files = [txt |-> NotWritten, csv |-> NotWritten, json |-> NotWritten]
    /\ response = [url |-> NoUrl, status |-> 0, remaining |-> "", reset |-> 0,
                   link |-> NoLink, json |-> <<>>]
    /\ err = NoErr
    /\ clock \in times
    /\ hits = 0
    /\ slept = <<>>
    /\ depth = 0
    /\ requests = <<>>
    /\ sent = <<>>
    /\ npages = 0
    /\ verdicts = <<>>
    /\ produced = <<>>

Init ==
    /\ Start("fetch", StartTimes)
    /\ input = <<>>
    /\ called = ""
    /\ outcome = <<>>

\* requests.get(u, ...) answered with resp: what every call of get_page does
\* whatever the response
Receive(u, resp, out) ==
    /\ requests' = Append(requests, u)
    /\ response' = [url |-> u, status |-> resp.status, remaining |-> resp.remaining,
                    reset |-> resp.reset, link |-> resp.link, json |-> resp.json]
    /\ hits' = IF resp.remaining = "0" THEN hits + 1 ELSE hits
    /\ slept' = slept \o out.sleeps
    /\ clock' = clock + Sum(out.sleeps)
    /\ depth' = IF out.kind = "retry" THEN depth + 1 ELSE 0

\* an exception nobody catches ends the run
Raise(e) ==
    /\ pc' = "aborted"
    /\ err' = e

\* the loop leaving out the last pull
LoopDoneEarly(i, list) == i >= Len(list)

\* for p in pulls: has run out of pulls
LoopDone(i, list) == i > Len(list)

\* the progress marks of one turn of the for loop
Marks(pr) ==
    (IF VERBOSE /\ pr \div 10 > 0 THEN <<"*">> ELSE <<>>)
        \o (IF VERBOSE /\ pr + 1 = 71 THEN <<"\n">> ELSE <<>>)
ProgressAfter(pr) == IF ~VERBOSE \/ pr + 1 = 71 THEN 0 ELSE pr + 1

\* one turn of the loop of download_pulls; the turn that finds no next page
\* returns the accumulator to analyze_pulls
FetchPage ==
    /\ pc = "fetch"
    /\ Len(requests) < MaxPageReqs
    /\ \E resp \in PageResponses(MaxPulls - Len(pull_reqs)) :
        LET out == get_page(resp, clock)
            acc == Extend(pull_reqs, resp.json)
            nxt == NextUrl(resp.link)
        IN  /\ Receive(url, resp, out)
            /\ CASE out.kind = "raise" ->
                     /\ Raise(out.err)
                     /\ UNCHANGED <<url, pull_reqs, pulls, sent, npages>>
                 [] out.kind = "retry" ->
                     UNCHANGED <<pc, err, url, pull_reqs, pulls, sent, npages>>
                 [] out.kind = "return" ->
                     /\ sent' = sent \o resp.json
                     /\ npages' = npages + 1
                     /\ url' = nxt
                     /\ pull_reqs' = IF nxt = NoUrl THEN <<>> ELSE acc
                     /\ pulls' = IF nxt = NoUrl THEN acc ELSE pulls
                     /\ pc' = IF nxt = NoUrl THEN "classify" ELSE "fetch"
                     /\ err' = err
    /\ UNCHANGED <<idx, progress, stdout, shas, pull_commits, files, verdicts, produced>>
    /\ UNCHANGED direct

\* the head of a turn of the for loop: the progress marks and is_defect(p)
Classify ==
    /\ pc = "classify"
    /\ ~LoopDone(idx, pulls)
    /\ \E resp \in IssueResponses :
        LET p == pulls[idx]
            out == get_page(resp, clock)
            v == is_defect(resp.json)
        IN  /\ Receive(p.issue_url, resp, out)
            /\ stdout' = IF depth = 0 THEN stdout \o Marks(progress) ELSE stdout
            /\ progress' = IF depth = 0 THEN ProgressAfter(progress) ELSE progress
            /\ CASE out.kind = "raise" ->
                     /\ Raise(out.err)
                     /\ UNCHANGED <<idx, verdicts>>
                 [] out.kind = "retry" ->
                     UNCHANGED <<pc, err, idx, verdicts>>
                 [] out.kind = "return" ->
                     /\ verdicts' = Append(verdicts, v)
                     /\ pc' = IF v THEN "extract" ELSE "classify"
                     /\ idx' = IF v THEN idx ELSE idx + 1
                     /\ err' = err
    /\ UNCHANGED <<url, pull_reqs, pulls, shas, pull_commits, files, sent, npages,
                   produced>>
    /\ UNCHANGED direct

\* the body of the if: get_commits_by_pull(p), then both structures grow
Extract ==
    /\ pc = "extract"
    /\ \E resp \in CommitResponses :
        LET p == pulls[idx]
            out == get_page(resp, clock)
            commits == CommitShas(resp.json)
        IN  /\ Receive(p.commits_url, resp, out)
            /\ CASE out.kind = "raise" ->
                     /\ Raise(out.err)
                     /\ UNCHANGED <<idx, shas, pull_commits, produced>>
                 [] out.kind = "retry" ->
                     UNCHANGED <<pc, err, idx, shas, pull_commits, produced>>
                 [] out.kind = "return" ->
                     /\ shas' = ExtendShas(shas, commits)
                     /\ pull_commits' = DictSet(pull_commits, p.number, commits)
                     /\ produced' =
                           Append(produced,
                                  [number |-> p.number, commits |-> commits,
                                   held |-> CommitShas(resp.json \o LaterCommits(resp.link))])
                     /\ idx' = idx + 1
                     /\ pc' = "classify"
                     /\ err' = err
    /\ UNCHANGED <<url, pull_reqs, pulls, progress, stdout, files, sent, npages,
                   verdicts>>
    /\ UNCHANGED direct

\* the loop is over: the closing line break, then the text file
WriteTxt ==
    /\ pc = "classify"
    /\ LoopDone(idx, pulls)
    /\ stdout' = IF VERBOSE THEN Append(stdout, "\n") ELSE stdout
    /\ files' = [files EXCEPT !.txt = TxtFile(shas)]
    /\ pc' = "csv"
    /\ UNCHANGED <<url, pull_reqs, pulls, idx, progress, shas, pull_commits, response,
                   err, clock, slept, depth, requests, hits, sent, npages, verdicts, produced>>
    /\ UNCHANGED direct

WriteCsv ==
    /\ pc = "csv"
    /\ files' = [files EXCEPT !.csv = CsvFile(pull_commits)]
    /\ pc' = "json"
    /\ UNCHANGED <<url, pull_reqs, pulls, idx, progress, stdout, shas, pull_commits,
                   response, err, clock, slept, depth, requests, hits, sent, npages, verdicts,
                   produced>>
    /\ UNCHANGED direct

\* the JSON file, then analyze_pulls returns shas
WriteJson ==
    /\ pc = "json"
    /\ files' = [files EXCEPT !.json = JsonFile(pull_commits)]
    /\ pc' = "done"
    /\ UNCHANGED <<url, pull_reqs, pulls, idx, progress, stdout, shas, pull_commits,
                   response, err, clock, slept, depth, requests, hits, sent, npages, verdicts,
                   produced>>
    /\ UNCHANGED direct

Next ==
    \/ FetchPage
    \/ Classify
    \/ Extract
    \/ WriteTxt
    \/ WriteCsv
    \/ WriteJson

Spec == Init /\ [][Next]_vars

(***************************************************************************)
(* Vocabulary of the properties.                                           *)
(***************************************************************************)
HasRel(link, r) ==
    link.has_link /\ \E i \in 1..Len(link.entries) : link.entries[i].rel = r
OfKind(k) == {i \in 1..Len(requests) : requests[i].kind = k}
\* the last response was one get_page hands to its caller
Answered(k) ==
    response.url.kind = k /\ response.status = 200 /\ response.remaining # "0"
RateLimited == response.remaining = "0"
Written(f) == files[f].written
AnyWritten == Written("txt") \/ Written("csv") \/ Written("json")
AllWritten == Written("txt") /\ Written("csv") /\ Written("json")
Fetched == url = NoUrl
IsDefectVerdict(c) == c.defect
IsCommitsUrl(r) == r.kind = "commits"
\* the pulls classified so far, each with its verdict
Classified == [i \in 1..Len(verdicts) |-> [pull |-> pulls[i], defect |-> verdicts[i]]]
DefectPulls == SelectSeq(Classified, IsDefectVerdict)
\* every commit extracted so far with the number of the pull it came from
Origin ==
    Concat([j \in 1..Len(produced) |->
              [k \in 1..Len(produced[j].commits) |->
                 [number |-> produced[j].number, sha |-> produced[j].commits[k]]]])
DistinctNumbers ==
    \A i, j \in 1..Len(pulls) : i # j => pulls[i].number # pulls[j].number

(***************************************************************************)
(* C1: pagination.  While download_pulls goes on, the page it last got     *)
(* carried both next and last, and it holds the records of every page got  *)
(* so far, one request per page; when it has returned, the page it stopped *)
(* at did not carry both, and the list it returned is the concatenation of *)
(* the records of all pages in order, with one request per page.           *)
(***************************************************************************)
C1_Pagination ==
    /\ (pc = "fetch" /\ npages > 0) =>
          /\ HasRel(response.link, "next") /\ HasRel(response.link, "last")
          /\ pull_reqs = sent
          /\ Cardinality(OfKind("pulls")) = npages
    /\ Fetched =>
          /\ pulls = sent
          /\ Cardinality(OfKind("pulls")) = npages
          /\ response.url.kind = "pulls" =>
                ~(HasRel(response.link, "next") /\ HasRel(response.link, "last"))

\* two pages, three records, the second page without next: returned
C1_Witness ==
    /\ pc = "classify" /\ Fetched /\ npages = 2 /\ Len(pulls) = 3
    /\ response.url = PullsUrl(2)
    /\ HasRel(response.link, "last") /\ ~HasRel(response.link, "next")

(***************************************************************************)
(* C2: rate-limit retry.  After a response with no requests remaining and  *)
(* reset time T, received at time now, the run has slept (T - now) + 15    *)
(* seconds at least, once per such response, and stands inside get_page    *)
(* about to request the same URL again.                                    *)
(***************************************************************************)
C2_WaitThenRetry ==
    RateLimited =>
        /\ pc # "aborted"
        /\ depth > 0
        /\ Len(slept) >= hits
        /\ clock >= response.reset + 15

(***************************************************************************)
(* C3: a rate-limit hit is not an error: no exception ends the run on a    *)
(* response with no requests remaining.                                    *)
(***************************************************************************)
C3_RateLimitNoError == (err # NoErr) => ~RateLimited

(***************************************************************************)
(* C4, as claimed: every response with status 200 is returned to the       *)
(* caller of get_page, neither discarded nor requested again.              *)
(***************************************************************************)
C4_Every200Returned == (response.status = 200) => (err = NoErr /\ depth = 0)

\* the caller of get_page has taken in the body of the last response
Consumed ==
    CASE response.url.kind = "pulls" ->
           /\ Len(sent) >= Len(response.json)
           /\ SubSeq(sent, Len(sent) - Len(response.json) + 1, Len(sent)) = response.json
      [] response.url.kind = "issue" ->
           /\ Len(verdicts) > 0
           /\ pulls[Len(verdicts)].issue_url = response.url
      [] response.url.kind = "commits" ->
           /\ Len(produced) > 0
           /\ Len(produced[Len(produced)].commits) = Len(response.json)
           /\ \A i \in 1..Len(response.json) :
                 produced[Len(produced)].commits[i] = response.json[i].sha
      [] OTHER -> FALSE

(***************************************************************************)
(* C4, amended: every response with status 200 whose x-ratelimit-remaining *)
(* header is not "0" is returned to the caller of get_page, which takes    *)
(* its body in: no exception, no retry.                                    *)
(***************************************************************************)
C4_Returned200 ==
    (response.status = 200 /\ response.remaining # "0") =>
        (err = NoErr /\ depth = 0 /\ pc # "aborted" /\ Consumed)

C4_Witness ==
    /\ Answered("commits") /\ Len(response.json) = 2
    /\ pc = "classify" /\ Len(shas) = 2

(***************************************************************************)
(* C5: a response with another status than 200 and requests remaining      *)
(* ends the run with an exception carrying that status: the request was    *)
(* the last one issued, and no output file exists.                         *)
(***************************************************************************)
C5_UnexpectedStatusFatal ==
    (response.url # NoUrl /\ response.status # 200 /\ ~RateLimited) =>
        /\ pc = "aborted"
        /\ err = StatusError(response.status)
        /\ depth = 0
        /\ requests[Len(requests)] = response.url
        /\ ~AnyWritten

\* a 404 on the commits of the second defect pull
C5_Witness ==
    /\ pc = "aborted" /\ err.type = "Exception" /\ err.code = 404
    /\ response.url.kind = "commits" /\ Len(produced) = 1 /\ Len(verdicts) = 2

(***************************************************************************)
(* C6: is_defect.  For an issue fetched successfully, with the set L of    *)
(* the names of its labels, the verdict is true iff L meets                *)
(* {bug, defect, kind/bug}; without a labels field, or with an empty one,  *)
(* it is false.                                                            *)
(***************************************************************************)
LabelSet(body) ==
    IF body.has_labels THEN {body.labels[i].name : i \in 1..Len(body.labels)} ELSE {}

C6_IsDefect ==
    Answered("issue") =>
        /\ Len(verdicts) > 0
        /\ verdicts[Len(verdicts)] =
              (\E l \in LabelSet(response.json) : l \in {"bug", "defect", "kind/bug"})
        /\ (~response.json.has_labels \/ response.json.labels = <<>>) =>
              ~verdicts[Len(verdicts)]

\* an issue labelled enhancement and bug: a defect
C6_Witness ==
    /\ Answered("issue") /\ LabelSet(response.json) = {"enhancement", "bug"}
    /\ verdicts # <<>> /\ verdicts[Len(verdicts)] /\ pc = "extract"

(***************************************************************************)
(* C7: consistency of the result, for pulls with distinct numbers: every   *)
(* commit listed in the dictionary is in the flat list, and every commit   *)
(* of the flat list is listed in the dictionary under the number of the    *)
(* pull it came from.                                                      *)
(***************************************************************************)
C7_Consistency ==
    DistinctNumbers =>
        /\ \A i \in 1..Len(pull_commits) :
              Range(pull_commits[i].val) \subseteq Range(shas)
        /\ Len(shas) = Len(Origin)
        /\ \A k \in 1..Len(shas) :
              /\ shas[k] = Origin[k].sha
              /\ Origin[k].number \in DictKeys(pull_commits)
              /\ shas[k] \in Range(DictGet(pull_commits, Origin[k].number))

\* two defect pulls, numbers 1 and 2, three commits
C7_Witness ==
    /\ DistinctNumbers /\ pc = "classify" /\ Len(pull_commits) = 2 /\ Len(shas) = 3

(***************************************************************************)
(* C8: selection.  The commits requests issued are those of the pulls      *)
(* is_defect was true of, in order (the one of the pull being extracted    *)
(* still to come), and once the loop is over the keys of the dictionary    *)
(* are the numbers of those pulls.                                         *)
(***************************************************************************)
C8_Selection ==
    LET urls == [k \in 1..Len(DefectPulls) |-> DefectPulls[k].pull.commits_url]
    IN  /\ SelectSeq(requests, IsCommitsUrl) =
              IF pc = "extract" THEN SubSeq(urls, 1, Len(urls) - 1) ELSE urls
        /\ pc \in {"csv", "json", "done"} =>
              /\ Len(verdicts) = Len(pulls)
              /\ DictKeys(pull_commits) =
                    {DefectPulls[k].pull.number : k \in 1..Len(DefectPulls)}

\* pull 1 a defect without commits, pull 2 no defect: the keys are {1}
C8_Witness ==
    /\ pc = "done" /\ Len(pulls) = 2 /\ verdicts = <<TRUE, FALSE>>
    /\ pulls[1].number = 1 /\ pulls[2].number = 2
    /\ pull_commits = <<[key |-> 1, val |-> <<>>]>>

(***************************************************************************)
(* C9: phases.  No issue or commits request before the pull list is        *)
(* complete; no file before every pull is classified and extracted, the    *)
(* files in the order txt, csv, json; no file in an aborted run; and in a  *)
(* completed run the three files hold the flat list and the dictionary.    *)
(***************************************************************************)
C9_Phases ==
    /\ (OfKind("issue") \cup OfKind("commits") # {}) =>
          /\ Fetched
          /\ \A i \in OfKind("pulls"), j \in OfKind("issue") \cup OfKind("commits") : i < j
    /\ AnyWritten =>
          /\ pc \in {"csv", "json", "done"}
          /\ Len(verdicts) = Len(pulls)
          /\ Len(produced) = Len(DefectPulls)
          /\ Written("txt")
          /\ Written("json") => Written("csv")
    /\ pc = "aborted" => ~AnyWritten
    /\ pc = "done" =>
          /\ AllWritten
          /\ files.txt.content = shas
          /\ Tail(files.csv.content) =
                Concat([i \in 1..Len(pull_commits) |->
                          [k \in 1..Len(pull_commits[i].val) |->
                             <<ToString(pull_commits[i].key), pull_commits[i].val[k], "o", "r">>]])
          /\ Len(files.json.content.pull_requests) = Len(pull_commits)
          /\ \A i \in 1..Len(pull_commits) :
                /\ files.json.content.pull_requests[i].key = ToString(pull_commits[i].key)
                /\ files.json.content.pull_requests[i].val = pull_commits[i].val

\* a completed run over three pulls with commits in the files
C9_Witness ==
    /\ pc = "done" /\ AllWritten /\ Len(pulls) = 3
    /\ Len(files.txt.content) = 3 /\ Len(files.csv.content) = 4

(***************************************************************************)
(* C10: recovery without loss.  A run that met responses with no requests  *)
(* remaining goes on with what it has accumulated, and ends with the list  *)
(* of all records sent and the commits of all pulls extracted.             *)
(***************************************************************************)
C10_RecoveryWithoutLoss ==
    hits > 0 =>
        /\ pc # "aborted"
        /\ pc = "fetch" => pull_reqs = sent
        /\ Fetched => pulls = sent
        /\ shas = [k \in 1..Len(Origin) |-> Origin[k].sha]

(***************************************************************************)
(* C11: completeness of the commit extractor.  The list get_commits_by_pull *)
(* returned for a pull is the list of all commits the server holds for it,  *)
(* in order, also when the server serves them as more than one page.        *)
(***************************************************************************)
C11_AllCommitsReturned ==
    \A j \in 1..Len(produced) : produced[j].commits = produced[j].held

(***************************************************************************)
(* get_auth and load_config_data, called on the path of a configuration    *)
(* file.  The file is unreadable, or holds a DEFAULT section of at most     *)
(* two options; configparser keeps the name of an option in lower case.    *)
(***************************************************************************)
FileKeys == {"User", "user", "Pwd", "Token"}
FileValues == {"", "alice", "s3"}
\* ConfigParser.optionxform: str.lower
optionxform(k) ==
    CASE k = "User" -> "user"
      [] k = "Pwd" -> "pwd"
      [] k = "Token" -> "token"
      [] OTHER -> k
Unreadable == [readable |-> FALSE, options |-> <<>>]
\* no file names an option twice: configparser refuses such a file
ConfigFiles ==
    {Unreadable}
        \cup {[readable |-> TRUE, options |-> o] :
                o \in {q \in SeqsUpTo([key : FileKeys, value : FileValues], 2) :
                         \A i, j \in 1..Len(q) :
                            i # j => optionxform(q[i].key) # optionxform(q[j].key)}}

\* config["DEFAULT"] once config.read() has read the file
DefaultSection(file) ==
    [k \in {optionxform(file.options[i].key) : i \in 1..Len(file.options)} |->
        LET i == CHOOSE i \in 1..Len(file.options) : optionxform(file.options[i].key) = k
        IN  file.options[i].value]

UsingNote == "NOTE: Using configuration file"
UnableToOpen == "ERROR: Unable to open configuration file"
MustBeSpecified == "ERROR: Username/Password must be specified in config file"

load_config_data(file) ==
    IF file.readable
    THEN [kind |-> "return", code |-> 0, err |-> NoErr, stderr |-> <<UsingNote>>,
          value |-> DefaultSection(file)]
    ELSE [kind |-> "exit", code |-> 1, err |-> NoErr, stderr |-> <<UnableToOpen>>,
          value |-> <<>>]

\* cfg[name]: the value of the option, KeyError if the section has none.  A
\* value read from a file is a string, never None: the branch of get_auth
\* that writes MustBeSpecified and exits is not taken
get_auth(file) ==
    LET l == load_config_data(file)
        cfg == l.value
        raise(name) ==
            [kind |-> "raise", code |-> 0, err |-> KeyError(name), stderr |-> l.stderr,
             value |-> <<>>]
    IN  IF l.kind # "return" THEN l
        ELSE IF optionxform("User") \notin DOMAIN cfg THEN raise("User")
        ELSE IF optionxform("Pwd") \notin DOMAIN cfg THEN raise("Pwd")
        ELSE [kind |-> "return", code |-> 0, err |-> NoErr, stderr |-> l.stderr,
              value |-> <<cfg[optionxform("User")], cfg[optionxform("Pwd")]>>]

AuthInit ==
    /\ Start("idle", StartTimes)
    /\ input \in ConfigFiles
    /\ called = ""
    /\ outcome = <<>>

LoadConfigData ==
    /\ called = ""
    /\ called' = "load_config_data"
    /\ outcome' = load_config_data(input)
    /\ UNCHANGED <<input, run>>

GetAuth ==
    /\ called = ""
    /\ called' = "get_auth"
    /\ outcome' = get_auth(input)
    /\ UNCHANGED <<input, run>>

AuthNext ==
    \/ LoadConfigData
    \/ GetAuth

SpecAuth == AuthInit /\ [][AuthNext]_vars

\* the options of the file, as configparser names them
OptionNames(file) == {optionxform(file.options[i].key) : i \in 1..Len(file.options)}

(***************************************************************************)
(* C12: configuration errors.  When the configuration file cannot be read, *)
(* or lacks the User or the Pwd option, get_auth writes an error message   *)
(* to the error stream and exits with status 1, no request issued.         *)
(***************************************************************************)
C12_ConfigErrorsExit ==
    (/\ called = "get_auth"
     /\ \/ ~input.readable
        \/ "user" \notin OptionNames(input)
        \/ "pwd" \notin OptionNames(input)) =>
        /\ outcome.kind = "exit" /\ outcome.code = 1
        /\ \E i \in 1..Len(outcome.stderr) :
              outcome.stderr[i] \in {UnableToOpen, MustBeSpecified}
        /\ requests = <<>>

(***************************************************************************)
(* C13: the cursor of the pagination.  After a page, download_pulls goes   *)
(* on to the URL of the next relation when the link header is there and    *)
(* carries both next and last; in every other case it stops at that page   *)
(* and returns the records accumulated so far.                             *)
(***************************************************************************)
C13_CursorRule ==
    Answered("pulls") =>
        LET link == response.link
        IN  IF HasRel(link, "next") /\ HasRel(link, "last")
            THEN /\ pc = "fetch"
                 /\ pull_reqs = sent
                 /\ \E i \in 1..Len(link.entries) :
                       /\ link.entries[i].rel = "next"
                       /\ \A j \in (i + 1)..Len(link.entries) : link.entries[j].rel # "next"
                       /\ url = PullsUrl(link.entries[i].url)
            ELSE /\ Fetched
                 /\ pc \in {"classify", "csv", "json", "done"}
                 /\ pulls = sent

\* a first page with next but without last: the pagination stops there
C13_Witness ==
    /\ Answered("pulls") /\ npages = 1 /\ Fetched /\ pc = "classify"
    /\ HasRel(response.link, "next") /\ ~HasRel(response.link, "last")
    /\ Len(pulls) = 2

(***************************************************************************)
(* C14, as claimed: outside a retry after a rate-limit hit, download_pulls *)
(* never requests the same page URL twice.                                 *)
(***************************************************************************)
C14_NoPageTwice ==
    hits = 0 =>
        \A i, j \in OfKind("pulls") : i # j => requests[i] # requests[j]

\* the target of the next relation of a link header that carries next and last
FollowsNext(link, u) ==
    /\ HasRel(link, "last")
    /\ \E i \in 1..Len(link.entries) :
          /\ link.entries[i].rel = "next"
          /\ \A j \in (i + 1)..Len(link.entries) : link.entries[j].rel # "next"
          /\ u = PullsUrl(link.entries[i].url)

(***************************************************************************)
(* C14, amended: download_pulls has no guard of its own against a link set *)
(* that points back.  Every page request goes to the cursor, which is the  *)
(* start URL or the URL the next relation of the page just returned names  *)
(* (with last present), whether or not that URL was fetched before; and a  *)
(* returned page ends the pagination exactly when it lacks next or last.   *)
(***************************************************************************)
C14_FollowsCursor ==
    [][(pc = "fetch" /\ requests' # requests) =>
          /\ requests' = Append(requests, url)
          /\ IF npages = 0 THEN url = PullsUrl(1) ELSE FollowsNext(response.link, url)
          /\ npages' = npages + 1 =>
                (pc' = "fetch") =
                    (HasRel(response'.link, "next") /\ HasRel(response'.link, "last"))]_vars

\* page 1 named itself as next, with last present: page 1 was requested twice
C14_Witness ==
    /\ hits = 0 /\ requests = <<PullsUrl(1), PullsUrl(1)>> /\ npages = 2
    /\ Answered("pulls")

(***************************************************************************)
(* C15: order of the flat list.  The pulls extracted are the pulls          *)
(* classified as defects, in the order of the list download_pulls returned; *)
(* the flat list is the concatenation of their commit lists in that order,  *)
(* each in the order of the response, a commit as often as it was returned; *)
(* and that is the list analyze_pulls ends with.                            *)
(***************************************************************************)
C15_FlatOrder ==
    /\ shas = Concat([j \in 1..Len(produced) |-> produced[j].commits])
    /\ Len(produced) <= Len(DefectPulls)
    /\ pc \notin {"extract", "aborted"} => Len(produced) = Len(DefectPulls)
    /\ \A j \in 1..Len(produced) : produced[j].number = DefectPulls[j].pull.number
    /\ (Answered("commits") /\ pc # "aborted") =>
          produced[Len(produced)].commits =
              [i \in 1..Len(response.json) |-> response.json[i].sha]
    /\ pc \in {"csv", "json", "done"} =>
          /\ pulls = sent
          /\ Len(verdicts) = Len(pulls)

\* pull 2 then pull 1, both defects, sharing commit c2: it is listed twice
C15_Witness ==
    /\ pc = "done" /\ shas = <<"c1", "c2", "c2">>
    /\ Len(produced) = 2 /\ produced[1].number = 2 /\ produced[2].number = 1
    /\ Len(pulls) = 3

(***************************************************************************)
(* get_page called on its own, its request answered with no requests       *)
(* remaining, and wait_it_out called on its own.                           *)
(***************************************************************************)
\* the x-ratelimit-reset header and the time utcnow() reads: resets in the
\* past, within the day and more than a day ahead
HitResets == {0, 40, 100, 105, 400, 100000}
HitNows == {100, 200}
\* the durations asked of wait_it_out: around the multiples of the increment
WaitTotals == {0, 1, 224, 225, 226, 465, 466, 86385}

\* the URLs get_page is called on
HitUrls == {PullsUrl(1), IssueUrl(1), CommitsUrl(1)}

WaitInit ==
    /\ Start("idle", HitNows)
    /\ input \in [url : HitUrls, status : Statuses, reset : HitResets, now : {clock},
                   total_wait : WaitTotals]
    /\ called = ""
    /\ outcome = <<>>

\* get_page(url, ...) up to the end of its dealings with the response to its
\* request, one without requests remaining: an outcome of kind retry leaves
\* it about to issue the request again
GetPageLimited ==
    /\ called = ""
    /\ called' = "get_page"
    /\ LET resp == [status |-> input.status, remaining |-> "0", reset |-> input.reset,
                    link |-> NoLink, json |-> <<>>]
           out == get_page(resp, clock)
       IN  /\ Receive(input.url, resp, out)
           /\ outcome' = out
    /\ UNCHANGED <<pc, url, pull_reqs, pulls, idx, progress, stdout, shas, pull_commits,
                   files, err, sent, npages, verdicts, produced, input>>

\* wait_it_out(msg, total_wait): the time it sleeps passes
WaitItOut ==
    /\ called = ""
    /\ called' = "wait_it_out"
    /\ LET out == wait_it_out(input.total_wait)
       IN  /\ outcome' = out
           /\ slept' = slept \o out.sleeps
           /\ clock' = clock + Sum(out.sleeps)
    /\ UNCHANGED <<pc, url, pull_reqs, pulls, idx, progress, stdout, shas, pull_commits,
                   files, response, err, depth, requests, hits, sent, npages, verdicts,
                   produced, input>>

WaitNext ==
    \/ GetPageLimited
    \/ WaitItOut

SpecWait == WaitInit /\ [][WaitNext]_vars

(***************************************************************************)
(* C16: the wait on a rate-limit hit.  Whatever the reset time and the     *)
(* current time, get_page passes wait_it_out the difference reset - now in *)
(* whole seconds: negative for a reset in the past, above 86399 for one    *)
(* more than a day ahead.                                                  *)
(***************************************************************************)
C16_WaitIsDifference ==
    called = "get_page" => outcome.waits = <<input.reset - input.now>>

(***************************************************************************)
(* C17: the arithmetic of wait_it_out.  Asked for total_wait >= 0 seconds, *)
(* it ends without an exception; every sleep lasts 240 seconds or what is  *)
(* left if that is less, never a negative time; the sleeps add up to       *)
(* total_wait + 15; and the notice of completion is written once, last.    *)
(***************************************************************************)
C17_WaitArithmetic ==
    (called = "wait_it_out" /\ input.total_wait >= 0) =>
        LET sleeps == outcome.sleeps
            notices == outcome.notices
            left(i) == input.total_wait + 15 - Sum(SubSeq(sleeps, 1, i - 1))
        IN  /\ outcome.err = NoErr
            /\ \A i \in 1..Len(sleeps) :
                  /\ sleeps[i] >= 0
                  /\ sleeps[i] = IF left(i) < 240 THEN left(i) ELSE 240
            /\ Sum(sleeps) = input.total_wait + 15
            /\ notices # <<>>
            /\ \A i \in 1..Len(notices) :
                  (notices[i] = "Wait completed") = (i = Len(notices))

(***************************************************************************)
(* The progress marks of analyze_pulls over a long list of pulls.  What    *)
(* is_defect and get_commits_by_pull do in a turn of the for loop does not *)
(* touch the progress counter: a turn is followed as far as its marks go,  *)
(* and the loop may end after any number of pulls.                         *)
(***************************************************************************)
MarksInit ==
    /\ Start("marks", StartTimes)
    /\ input = <<>>
    /\ called = ""
    /\ outcome = <<>>

\* the head of one turn of the for loop
MarkPull ==
    /\ pc = "marks"
    /\ idx <= MaxMarked
    /\ stdout' = stdout \o Marks(progress)
    /\ progress' = ProgressAfter(progress)
    /\ idx' = idx + 1
    /\ UNCHANGED <<pc, url, pull_reqs, pulls, shas, pull_commits, files, response, err,
                   clock, slept, depth, requests, hits, sent, npages, verdicts, produced>>
    /\ UNCHANGED direct

\* the list had idx - 1 pulls: the line break that follows the loop
MarksEnd ==
    /\ pc = "marks"
    /\ stdout' = IF VERBOSE THEN Append(stdout, "\n") ELSE stdout
    /\ pc' = "marked"
    /\ UNCHANGED <<url, pull_reqs, pulls, idx, progress, shas, pull_commits, files,
                   response, err, clock, slept, depth, requests, hits, sent, npages,
                   verdicts, produced>>
    /\ UNCHANGED direct

MarksNext ==
    \/ MarkPull
    \/ MarksEnd

SpecMarks == MarksInit /\ [][MarksNext]_vars

\* how often x was written to s
Count(s, x) == Cardinality({i \in 1..Len(s) : s[i] = x})

(***************************************************************************)
(* C18: progress marks.  After n pulls the loop has written floor(n / 10)  *)
(* asterisks, one every 10 pulls, and floor(floor(n / 10) / 71) line       *)
(* breaks, one every 71 asterisks.                                         *)
(***************************************************************************)
C18_ProgressMarks ==
    LET n == idx - 1
        after_loop == IF pc = "marked" THEN 1 ELSE 0
    IN  /\ Count(stdout, "*") = n \div 10
        /\ Count(stdout, "\n") - after_loop = (n \div 10) \div 71

(***************************************************************************)
(* C19: the rate-limit test comes before the status test.  A response with *)
(* no requests remaining is not handed to the caller of get_page and does  *)
(* not raise the exception that carries the status, whatever its status;   *)
(* a response get_page has handed to its caller has status 200 and         *)
(* requests remaining.                                                     *)
(***************************************************************************)
C19_RateLimitFirst ==
    /\ RateLimited =>
          /\ pc = "aborted" \/ depth > 0
          /\ err.type # "Exception"
    /\ (response.url # NoUrl /\ pc # "aborted" /\ depth = 0) =>
          /\ response.status = 200
          /\ response.remaining # "0"
          /\ Consumed

\* a 404 with no requests remaining, on an issue: no exception of the status
C19_Witness ==
    /\ RateLimited /\ response.status = 404 /\ response.url.kind = "issue"
    /\ pc = "aborted" /\ err = NameError("datetime")

\* the commits returned for the last pull extracted that has number n
LastProduced(n) ==
    LET j == CHOOSE j \in 1..Len(produced) :
                /\ produced[j].number = n
                /\ \A k \in (j + 1)..Len(produced) : produced[k].number # n
    IN  produced[j].commits
\* the commits the dictionary lists
Listed == UNION {Range(pull_commits[i].val) : i \in 1..Len(pull_commits)}

(***************************************************************************)
(* C20: repeated pull numbers.  The flat list takes the commits of every   *)
(* pull extracted, records of a repeated number included; the dictionary   *)
(* has one entry per number, holding the commit list of the last record    *)
(* extracted with that number; and the CSV rows and the JSON document list *)
(* exactly what the dictionary lists.                                      *)
(***************************************************************************)
C20_RepeatedNumbers ==
    /\ Len(shas) = Sum([j \in 1..Len(produced) |-> Len(produced[j].commits)])
    /\ \A j \in 1..Len(produced) : Range(produced[j].commits) \subseteq Range(shas)
    /\ \A i, j \in 1..Len(pull_commits) :
          i # j => pull_commits[i].key # pull_commits[j].key
    /\ DictKeys(pull_commits) = {produced[j].number : j \in 1..Len(produced)}
    /\ \A n \in DictKeys(pull_commits) : DictGet(pull_commits, n) = LastProduced(n)
    /\ Written("csv") =>
          {files.csv.content[i][2] : i \in 2..Len(files.csv.content)} = Listed
    /\ Written("json") =>
          UNION {Range(files.json.content.pull_requests[i].val) :
                   i \in 1..Len(files.json.content.pull_requests)} = Listed

\* two defect records numbered 1, with commits c1 c2 and then c2: c1 is in
\* the flat list and in neither the dictionary nor the CSV nor the JSON
C20_Witness ==
    /\ pc = "done" /\ Len(pulls) = 2 /\ pulls[1].number = 1 /\ pulls[2].number = 1
    /\ verdicts = <<TRUE, TRUE>>
    /\ shas = <<"c1", "c2", "c2">>
    /\ pull_commits = <<[key |-> 1, val |-> <<"c2">>]>>
    /\ "c1" \notin Listed
    /\ Len(files.csv.content) = 2
    /\ Len(files.json.content.pull_requests) = 1

====
